---- MODULE Spec2Model ----
(***************************************************************************)
(* State-machine model of retailflow-pos (src/src/pos_app.py): the         *)
(* in-memory inventory of a POSApp process, the inventory CSV file it      *)
(* writes back, the SQLite receipt database (tables receipts and           *)
(* receipt_lines), the sale menu of start_sale, process_return and the     *)
(* non-interactive demo.                                                   *)
(***************************************************************************)
EXTENDS Integers, Sequences, FiniteSets, TLC

\* ------------------------------------------------------------------ bounds
MaxQty == 3          \* largest quantity typed at a "Qty" prompt
MaxLines == 2        \* most lines a sale accumulates before checkout
MaxReceipts == 2     \* most receipts created in one run of the model
InitStock == 3       \* Item_On_Hand of every item in the inventory file
MaxCrashes == 2      \* most process deaths (storage faults, kills) in one run
MaxCrashReceipts == 1  \* most receipts created in a run with process deaths
MaxSharedLines == 1  \* most lines of a sale in a run of two terminals
MaxSharedQty == 1    \* largest quantity typed in a run of two terminals
MaxSharedReceipts == 2  \* most sales begun in a run of two terminals
MaxSharedReceiptNo == 1  \* largest receipt number typed in a run of two terminals
MaxSharedCrashes == 1  \* most process deaths in a run of two terminals

\* ------------------------------------------------------------------ data
Terminals == {1, 2}                  \* POSApp processes sharing pos.db
T1 == CHOOSE t \in Terminals : \A u \in Terminals : t <= u
Items == {"A", "B"}                  \* UPCs of the loaded inventory file
UnknownUPC == "Z"                    \* a UPC that is not in the inventory

\* What the operator types at a numeric prompt: a number, or text that
\* int()/float() rejects with ValueError.
Num(v) == [num |-> TRUE, val |-> v]
NotNum == [num |-> FALSE, val |-> 0]
Typed(S) == {Num(v) : v \in S} \cup {NotNum}

\* ------------------------------------------------------------------ float
\* Amounts are Python floats (IEEE 754 binary64).  A finite float >= 0 is kept
\* as the whole number n of its value n * 2^-60, written with four digits of
\* base 2^20, least digit first; this is exact for every float from 2^-7 up
\* to 2^20, which covers the amounts from one cent up that a sale meets, and
\* the differences of two of them.
Digit == 1048576
Mantissa == 53

Big(n) == <<n, 0, 0, 0>>

BigAdd(a, b) ==
    LET s1 == a[1] + b[1]
        s2 == a[2] + b[2] + s1 \div Digit
        s3 == a[3] + b[3] + s2 \div Digit
        s4 == a[4] + b[4] + s3 \div Digit
    IN <<s1 % Digit, s2 % Digit, s3 % Digit, s4>>

\* a - b for a >= b
BigSub(a, b) ==
    LET d1 == a[1] - b[1]
        d2 == a[2] - b[2] + d1 \div Digit
        d3 == a[3] - b[3] + d2 \div Digit
        d4 == a[4] - b[4] + d3 \div Digit
    IN <<d1 % Digit, d2 % Digit, d3 % Digit, d4>>

\* a * q for a small whole number q
BigMul(a, q) ==
    LET p1 == a[1] * q
        p2 == a[2] * q + p1 \div Digit
        p3 == a[3] * q + p2 \div Digit
        p4 == a[4] * q + p3 \div Digit
    IN <<p1 % Digit, p2 % Digit, p3 % Digit, p4>>

\* quotient and remainder of a by a small whole number d
BigDiv(a, d) ==
    LET c4 == a[4]
        c3 == (c4 % d) * Digit + a[3]
        c2 == (c3 % d) * Digit + a[2]
        c1 == (c2 % d) * Digit + a[1]
    IN [q |-> <<c1 \div d, c2 \div d, c3 \div d, c4 \div d>>, r |-> c1 % d]

BigLess(a, b) ==
    \E k \in 1..4 : a[k] < b[k] /\ \A j \in (k + 1)..4 : a[j] = b[j]

\* the number of binary digits of a whole number n < 2^31
IntBits(n) == CHOOSE k \in 0..30 : 2^k > n /\ (k = 0 \/ 2^(k - 1) <= n)

\* the number of binary digits of a
BigBits(a) ==
    IF a[4] # 0 THEN 60 + IntBits(a[4])
    ELSE IF a[3] # 0 THEN 40 + IntBits(a[3])
    ELSE IF a[2] # 0 THEN 20 + IntBits(a[2])
    ELSE IntBits(a[1])

\* The float nearest to the number a + f, 0 <= f < 1 and f # 0 iff sticky:
\* the Mantissa leading binary digits of a are kept and the s digits below
\* them (s <= 40, in the two lowest digits of base 2^20) are rounded off, to
\* nearest, ties to even.
RoundBits(a, sticky) ==
    LET s == BigBits(a) - Mantissa
    IN IF s <= 0 THEN a
       ELSE LET lo == IF s <= 20 THEN a[1] % 2^s ELSE a[1]
                hi == IF s <= 20 THEN 0 ELSE a[2] % 2^(s - 20)
                halflo == IF s <= 20 THEN 2^(s - 1) ELSE 0
                halfhi == IF s <= 20 THEN 0 ELSE 2^(s - 21)
                odd == IF s < 20 THEN (a[1] \div 2^s) % 2 = 1
                       ELSE IF s = 20 THEN a[2] % 2 = 1
                       ELSE IF s < 40 THEN (a[2] \div 2^(s - 20)) % 2 = 1
                       ELSE a[3] % 2 = 1
                up == \/ hi > halfhi
                      \/ hi = halfhi /\ lo > halflo
                      \/ hi = halfhi /\ lo = halflo /\ (sticky \/ odd)
                one == IF s <= 20 THEN <<2^s, 0, 0, 0>> ELSE <<0, 2^(s - 20), 0, 0>>
                kept == <<a[1] - lo, a[2] - hi, a[3], a[4]>>
            IN IF up THEN BigAdd(kept, one) ELSE kept

\* a float: finite and >= 0, nan, or inf
Float(n) == [fl |-> "finite", n |-> n]
NaN == [fl |-> "nan", n |-> Big(0)]
Inf == [fl |-> "inf", n |-> Big(0)]

\* The text typed at a prompt for an amount, or found in the price column of
\* the inventory file: a decimal with two places (val is the amount in
\* cents), nan, inf (or a literal too large for a float, such as 1e400), or a
\* text that float() rejects with ValueError.  The same records stand for an
\* amount printed with the format .2f.
Decimal(c) == [num |-> TRUE, val |-> c, fl |-> "finite"]
NaNText == [num |-> TRUE, val |-> 0, fl |-> "nan"]
InfText == [num |-> TRUE, val |-> 0, fl |-> "inf"]
NotFloat == [num |-> FALSE, val |-> 0, fl |-> "finite"]

\* float(text) for a text it accepts: the float nearest to the decimal
float(text) ==
    IF text.fl = "nan" THEN NaN
    ELSE IF text.fl = "inf" THEN Inf
    ELSE LET d == BigDiv(<<0, 0, 0, text.val>>, 100)
         IN Float(RoundBits(d.q, d.r # 0))

\* x * q, x a finite float and q an int >= 0 (converted to float exactly)
FloatMul(x, q) == Float(RoundBits(BigMul(x.n, q), FALSE))

\* x + y for finite floats
FloatAdd(x, y) == Float(RoundBits(BigAdd(x.n, y.n), FALSE))

\* x < y, y finite: False for nan and for inf
FloatLess(x, y) == x.fl = "finite" /\ BigLess(x.n, y.n)

\* x - y for a finite y and an x that is not less: nan and inf stay
FloatMinus(x, y) ==
    IF x.fl = "finite" THEN Float(RoundBits(BigSub(x.n, y.n), FALSE)) ELSE x

\* f"{x:.2f}": the decimal with two places nearest to x, ties to even
format2f(x) ==
    IF x.fl = "nan" THEN NaNText
    ELSE IF x.fl = "inf" THEN InfText
    ELSE LET y == BigMul(x.n, 100)
             r == <<y[1], y[2], y[3], 0>>
             half == <<0, 0, Digit \div 2, 0>>
             up == BigLess(half, r) \/ (r = half /\ y[4] % 2 = 1)
         IN Decimal(IF up THEN y[4] + 1 ELSE y[4])

\* Item_Unit_Price of the rows of the inventory file, in cents: 2.00, which is
\* a float exactly, and 0.10, which is not (0.10 * 3 > 0.30 as floats)
PriceCents == [i \in Items |-> IF i = "A" THEN 200 ELSE 10]

\* Item.unit_price as load_inventory makes it: float(row["Item_Unit_Price"])
UnitPrice == [i \in Items |-> float(Decimal(PriceCents[i]))]

NoLines == << >>

\* ------------------------------------------------------------------ helpers
RECURSIVE SumQty(_, _)
\* units of item upc over a sequence of lines
SumQty(lines, upc) ==
    IF lines = << >> THEN 0
    ELSE (IF Head(lines).upc = upc THEN Head(lines).qty ELSE 0)
         + SumQty(Tail(lines), upc)

\* Python list indexing lst[idx] / lst.pop(idx) on a list of length n:
\* the 1-based position selected, 0 when IndexError is raised.
PyIndex(n, idx) ==
    IF idx >= 0 /\ idx < n THEN idx + 1
    ELSE IF idx < 0 /\ idx >= -n THEN n + idx + 1
    ELSE 0

RemoveAt(s, k) == [j \in 1..(Len(s) - 1) |-> IF j < k THEN s[j] ELSE s[j + 1]]

\* ------------------------------------------------------------------ Item
\* Item.update_on_hand on the item upc of an inventory dict
update_on_hand(inv, upc, delta) == [inv EXCEPT ![upc] = @ + delta]

\* an inventory dict without items: what load_inventory returns for a file
\* without rows
NoItems == [i \in {} |-> 0]

SaleLine(upc, qty) == [upc |-> upc, unit_price |-> UnitPrice[upc], qty |-> qty]

\* ------------------------------------------------------------------ SalesStore
\* _init_db on a fresh database file: both tables empty
EmptyDb == [receipts |-> << >>, receipt_lines |-> << >>]

\* rowid SQLite gives the next row of receipt_lines: largest rowid + 1
RECURSIVE MaxRowid(_)
MaxRowid(rows) ==
    IF rows = << >> THEN 0
    ELSE LET m == MaxRowid(Tail(rows))
         IN IF Head(rows).rowid > m THEN Head(rows).rowid ELSE m

\* receipt_no of the row INSERT INTO receipts creates (AUTOINCREMENT)
NextReceiptNo(d) == Len(d.receipts) + 1

create_receipt(d, lines) ==
    LET receipt_no == NextReceiptNo(d)
        base == MaxRowid(d.receipt_lines)
        rows == [k \in 1..Len(lines) |->
                    [rowid |-> base + k, receipt_no |-> receipt_no,
                     upc |-> lines[k].upc, unit_price |-> lines[k].unit_price,
                     qty |-> lines[k].qty]]
    IN [receipts |-> Append(d.receipts, FALSE),
        receipt_lines |-> d.receipt_lines \o rows]

ReceiptExists(d, receipt_no) == receipt_no \in 1..Len(d.receipts)

\* rows of receipt_lines that belong to the receipt, in table order
RowsOf(d, receipt_no) ==
    SelectSeq(d.receipt_lines, LAMBDA r : r.receipt_no = receipt_no)

\* get_receipt of an existing receipt: (canceled, lines)
get_receipt(d, receipt_no) ==
    LET rows == RowsOf(d, receipt_no)
    IN [canceled |-> d.receipts[receipt_no],
        lines |-> [k \in 1..Len(rows) |->
                      [upc |-> rows[k].upc, unit_price |-> rows[k].unit_price,
                       qty |-> rows[k].qty]]]

\* a variant of get_receipt that inserts the receipt it does not find
get_receipt_db_GetOrCreate(d, receipt_no) ==
    IF receipt_no \in 1..Len(d.receipts) THEN d
    ELSE [d EXCEPT !.receipts = Append(@, FALSE)]

\* pos.db after a get_receipt call: its two statements (lines 80 and 85-89)
\* are SELECTs, so the with-block has nothing to commit, whether the call
\* returns or raises ValueError
get_receipt_db(d, receipt_no) == d

set_canceled(d, receipt_no) ==
    [d EXCEPT !.receipts =
        [n \in 1..Len(d.receipts) |-> IF n = receipt_no THEN TRUE ELSE d.receipts[n]]]

\* a variant of the WHERE clause that leaves the receipt number out
LineMatches_AnyReceipt(r, receipt_no, upc) == r.upc = upc

\* the WHERE clause of both statements of update_line_qty
LineMatches(r, receipt_no, upc) == r.receipt_no = receipt_no /\ r.upc = upc

\* a variant that marks the receipt canceled when the statement leaves it
\* without lines
update_line_qty_AutoCancel(d, receipt_no, upc, new_qty) ==
    LET rows == IF new_qty <= 0
                THEN SelectSeq(d.receipt_lines, LAMBDA r : ~LineMatches(r, receipt_no, upc))
                ELSE [k \in 1..Len(d.receipt_lines) |->
                        IF LineMatches(d.receipt_lines[k], receipt_no, upc)
                        THEN [d.receipt_lines[k] EXCEPT !.qty = new_qty]
                        ELSE d.receipt_lines[k]]
        empty == \A k \in 1..Len(rows) : rows[k].receipt_no # receipt_no
    IN [receipts |-> [n \in 1..Len(d.receipts) |->
                        IF n = receipt_no /\ empty THEN TRUE ELSE d.receipts[n]],
        receipt_lines |-> rows]

\* a variant that deletes only below zero, so that a line is stored with qty 0
update_line_qty_KeepZero(d, receipt_no, upc, new_qty) ==
    IF new_qty < 0
    THEN [d EXCEPT !.receipt_lines =
            SelectSeq(d.receipt_lines, LAMBDA r : ~LineMatches(r, receipt_no, upc))]
    ELSE [d EXCEPT !.receipt_lines =
            [k \in 1..Len(d.receipt_lines) |->
                IF LineMatches(d.receipt_lines[k], receipt_no, upc)
                THEN [d.receipt_lines[k] EXCEPT !.qty = new_qty]
                ELSE d.receipt_lines[k]]]

\* a variant that also drops the receipt record when the statement leaves the
\* newest receipt without lines
update_line_qty_DropEmpty(d, receipt_no, upc, new_qty) ==
    LET rows == IF new_qty <= 0
                THEN SelectSeq(d.receipt_lines, LAMBDA r : ~LineMatches(r, receipt_no, upc))
                ELSE [k \in 1..Len(d.receipt_lines) |->
                        IF LineMatches(d.receipt_lines[k], receipt_no, upc)
                        THEN [d.receipt_lines[k] EXCEPT !.qty = new_qty]
                        ELSE d.receipt_lines[k]]
        empty == \A k \in 1..Len(rows) : rows[k].receipt_no # receipt_no
    IN [receipts |-> IF empty /\ receipt_no = Len(d.receipts)
                     THEN SubSeq(d.receipts, 1, Len(d.receipts) - 1)
                     ELSE d.receipts,
        receipt_lines |-> rows]

update_line_qty(d, receipt_no, upc, new_qty) ==
    IF new_qty <= 0
    THEN [d EXCEPT !.receipt_lines =
            SelectSeq(d.receipt_lines, LAMBDA r : ~LineMatches(r, receipt_no, upc))]
    ELSE [d EXCEPT !.receipt_lines =
            [k \in 1..Len(d.receipt_lines) |->
                IF LineMatches(d.receipt_lines[k], receipt_no, upc)
                THEN [d.receipt_lines[k] EXCEPT !.qty = new_qty]
                ELSE d.receipt_lines[k]]]

\* a variant in which a write statement does not wait for the write lock
CanWrite_NoLock(l, t) == TRUE

\* SQLite lets one connection at a time hold the write lock of the database
\* file: the first write statement of a "with sqlite3.connect(...)" block of
\* terminal t goes ahead when no other connection is inside a write transaction
CanWrite(l, t) == l = 0 \/ l = t

\* ------------------------------------------------------------------ POSApp
\* sum(l.unit_price * l.qty for l in lines): the products are added from the
\* left to the int 0, each product and each sum rounded to a float
RECURSIVE SumTo(_, _)
SumTo(lines, k) ==
    IF k = 0 THEN Float(Big(0))
    ELSE FloatAdd(SumTo(lines, k - 1), FloatMul(lines[k].unit_price, lines[k].qty))

calc_total(lines) == SumTo(lines, Len(lines))

\* self.inventory[l.upc] raises KeyError for some line of the list
MissingItem(inv, lines) == \E k \in 1..Len(lines) : lines[k].upc \notin DOMAIN inv

RECURSIVE ApplyLines_OncePerItem(_, _, _)
\* a variant of the loops that updates an item once, by its last line only
ApplyLines_OncePerItem(inv, lines, sign) ==
    IF lines = << >> THEN inv
    ELSE IF Head(lines).upc \notin DOMAIN inv THEN inv
    ELSE IF \E k \in 2..Len(lines) : lines[k].upc = Head(lines).upc
         THEN ApplyLines_OncePerItem(inv, Tail(lines), sign)
    ELSE ApplyLines_OncePerItem(
             update_on_hand(inv, Head(lines).upc, sign * Head(lines).qty),
             Tail(lines), sign)

RECURSIVE ApplyLines(_, _, _)
\* the loops "for l in lines: inventory[l.upc].update_on_hand(sign * l.qty)";
\* the loop ends at the first line whose item is not in the dict (KeyError)
ApplyLines(inv, lines, sign) ==
    IF lines = << >> THEN inv
    ELSE IF Head(lines).upc \notin DOMAIN inv THEN inv
    ELSE ApplyLines(update_on_hand(inv, Head(lines).upc, sign * Head(lines).qty),
                    Tail(lines), sign)

\* a variant of the check of process_return that lets one unit too many through
InvalidReturnQty_OffByOne(return_qty, line_qty) ==
    return_qty <= 0 \/ return_qty > line_qty + 1

\* the check of process_return on the quantity to return from a line
InvalidReturnQty(return_qty, line_qty) == return_qty <= 0 \/ return_qty > line_qty

\* the tender check of start_sale
NotEnoughCash(cash, total) == FloatLess(cash, total)

\* ------------------------------------------------------------------ state
VARIABLES
    inventory,   \* inventory[t][upc]: on_hand in the memory of terminal t
    csv,         \* csv[upc]: Item_On_Hand in the inventory file
    db,          \* pos.db: tables receipts and receipt_lines
    pc,          \* pc[t]: where terminal t stands in run/start_sale/process_return
    sale_lines,  \* sale_lines[t]: the local list of start_sale
    result,      \* result[t]: what the last request of terminal t printed
    unreturned,  \* unreturned[n][upc]: units receipt n's sale took from on_hand
                 \* minus the units its returns have put back
    rt,          \* the sale last committed, while only its receipt was returned on
    txn,         \* txn[t]: the locals of the commit terminal t is in the middle of,
                 \* and the state it started from
    crashes,     \* processes that died so far (storage faults and kills)
    lock,        \* the terminal whose connection holds the write lock of pos.db
                 \* (an open write transaction), 0 when no connection does
    issued       \* the receipt numbers create_receipt has returned, in order

vars == <<inventory, csv, db, pc, sale_lines, result, unreturned, rt, txn, crashes,
          lock, issued>>

\* what a request printed; for "Receipt" the number and the change printed
\* with it, for the cash loop the cash that was typed, for process_return the
\* receipt number, line number and quantity that were typed
Msg(m) == [msg |-> m, receipt_no |-> 0, change |-> NotFloat, line_no |-> NotNum,
           return_qty |-> NotNum, cash |-> NotFloat]

RetMsg(m, receipt_no) ==
    [Msg(m) EXCEPT !.receipt_no = IF receipt_no.num THEN receipt_no.val ELSE 0]

RetOneMsg(m, receipt_no, line_no, return_qty) ==
    [RetMsg(m, receipt_no) EXCEPT !.line_no = line_no, !.return_qty = return_qty]

NoRoundTrip == [receipt_no |-> 0, before |-> [i \in Items |-> InitStock]]

NoTxn ==
    [op |-> "none", receipt_no |-> 0, lines |-> << >>, line |-> 0, return_qty |-> 0,
     cash |-> NotFloat,
     before |-> [inventory |-> [i \in Items |-> InitStock],
                 csv |-> [i \in Items |-> InitStock], db |-> EmptyDb]]

Init ==
    /\ csv = [i \in Items |-> InitStock]
    /\ inventory = [t \in Terminals |-> csv]
    /\ db = EmptyDb
    /\ pc = [t \in Terminals |-> "menu"]
    /\ sale_lines = [t \in Terminals |-> NoLines]
    /\ result = [t \in Terminals |-> Msg("=== MAIN MENU ===")]
    /\ unreturned = << >>
    /\ rt = NoRoundTrip
    /\ txn = [t \in Terminals |-> NoTxn]
    /\ crashes = 0
    /\ lock = 0
    /\ issued = << >>

\* ------------------------------------------------------------------ run
\* the handler has returned: the loop of run prints the main menu again
MainMenu(t) ==
    /\ pc[t] = "returned"
    /\ pc' = [pc EXCEPT ![t] = "menu"]
    /\ result' = [result EXCEPT ![t] = Msg("=== MAIN MENU ===")]
    /\ txn' = [txn EXCEPT ![t] = NoTxn]
    /\ UNCHANGED <<inventory, csv, db, sale_lines, unreturned, rt, crashes, lock, issued>>

\* main menu choice "0": run prints "Goodbye." and returns, and the process
\* ends with what it holds in memory
Exit(t) ==
    /\ pc[t] = "menu"
    /\ result' = [result EXCEPT ![t] = Msg("Goodbye.")]
    /\ pc' = [pc EXCEPT ![t] = "exited"]
    /\ UNCHANGED <<inventory, csv, db, sale_lines, unreturned, rt, txn, crashes, lock, issued>>

\* the program is started again after the process has ended (the return of
\* run or of main after demo, an exception, or a kill): POSApp.__init__
\* loads the inventory file
Restart(t) ==
    /\ pc[t] \in {"failed", "crashed", "exited"}
    /\ inventory' = [inventory EXCEPT ![t] = csv]
    /\ pc' = [pc EXCEPT ![t] = "menu"]
    /\ sale_lines' = [sale_lines EXCEPT ![t] = NoLines]
    /\ result' = [result EXCEPT ![t] = Msg("=== MAIN MENU ===")]
    /\ txn' = [txn EXCEPT ![t] = NoTxn]
    /\ UNCHANGED <<csv, db, unreturned, rt, crashes, lock, issued>>

\* ------------------------------------------------------------------ start_sale
\* main menu choice "1": start_sale begins with an empty list
StartSale(t) ==
    /\ pc[t] = "menu"
    /\ Len(db.receipts) < MaxReceipts
    /\ pc' = [pc EXCEPT ![t] = "sale"]
    /\ sale_lines' = [sale_lines EXCEPT ![t] = NoLines]
    /\ result' = [result EXCEPT ![t] = Msg("=== NEW SALE MENU ===")]
    /\ UNCHANGED <<inventory, csv, db, unreturned, rt, txn, crashes, lock, issued>>

\* what sale menu choice "1" prints, and what it does to the list
AddItemMsg(inv, upc, qty) ==
    IF upc \notin DOMAIN inv THEN "UPC not found."
    ELSE IF ~qty.num THEN "Qty must be a number."
    ELSE IF qty.val <= 0 THEN "Qty must be positive."
    ELSE "Running total"

AddItemLines(inv, lines, upc, qty) ==
    IF AddItemMsg(inv, upc, qty) # "Running total" THEN lines
    ELSE Append(lines, SaleLine(upc, qty.val))

AddItem(t, upc, qty) ==
    /\ pc[t] = "sale"
    /\ Len(AddItemLines(inventory[t], sale_lines[t], upc, qty)) <= MaxLines
    /\ sale_lines' = [sale_lines EXCEPT ![t] = AddItemLines(inventory[t], @, upc, qty)]
    /\ result' = [result EXCEPT ![t] = Msg(AddItemMsg(inventory[t], upc, qty))]
    /\ UNCHANGED <<inventory, csv, db, pc, unreturned, rt, txn, crashes, lock, issued>>

\* what sale menu choice "2" prints, and what sale_lines.pop(int(input) - 1)
\* does to the list
RemoveItemMsg(lines, line_no) ==
    IF lines = << >> THEN "No lines to remove."
    ELSE IF ~line_no.num THEN "Invalid selection."
    ELSE IF PyIndex(Len(lines), line_no.val - 1) = 0 THEN "Invalid selection."
    ELSE "Running total"

RemoveItemLines(lines, line_no) ==
    IF RemoveItemMsg(lines, line_no) # "Running total" THEN lines
    ELSE RemoveAt(lines, PyIndex(Len(lines), line_no.val - 1))

RemoveItem(t, line_no) ==
    /\ pc[t] = "sale"
    /\ sale_lines' = [sale_lines EXCEPT ![t] = RemoveItemLines(@, line_no)]
    /\ result' = [result EXCEPT ![t] = Msg(RemoveItemMsg(sale_lines[t], line_no))]
    /\ UNCHANGED <<inventory, csv, db, pc, unreturned, rt, txn, crashes, lock, issued>>

\* sale menu choice "0"
CancelSale(t) ==
    /\ pc[t] = "sale"
    /\ pc' = [pc EXCEPT ![t] = "returned"]
    /\ result' = [result EXCEPT ![t] = Msg("Sale canceled.")]
    /\ sale_lines' = [sale_lines EXCEPT ![t] = NoLines]
    /\ UNCHANGED <<inventory, csv, db, unreturned, rt, txn, crashes, lock, issued>>

\* sale menu choice "3": an empty sale returns, otherwise the total is due
Checkout(t) ==
    /\ pc[t] = "sale"
    /\ pc' = [pc EXCEPT ![t] = IF sale_lines[t] = << >> THEN "returned" ELSE "tender"]
    /\ result' = [result EXCEPT ![t] =
          Msg(IF sale_lines[t] = << >> THEN "Empty sale." ELSE "Total due")]
    /\ UNCHANGED <<inventory, csv, db, sale_lines, unreturned, rt, txn, crashes, lock, issued>>

\* what one round of the "Cash received" loop prints
\* for the total computed at line 251 and the text typed
TenderMsg(total, cash) ==
    IF ~cash.num THEN "Invalid cash amount."
    ELSE IF NotEnoughCash(float(cash), total) THEN "Not enough cash."
    ELSE "Receipt"

\* a variant that updates the inventory before looking at the amount
TenderInventory_BeforeCheck(inv, lines, msg) ==
    IF msg = "Invalid cash amount." THEN inv ELSE ApplyLines(inv, lines, -1)

\* the in-memory inventory after a round that printed msg
TenderInventory(inv, lines, msg) ==
    IF msg # "Receipt" THEN inv ELSE ApplyLines(inv, lines, -1)

\* the database after a round that printed msg
TenderDb(d, lines, msg) ==
    IF msg # "Receipt" THEN d ELSE create_receipt(d, lines)

\* units of every item over a sequence of lines
Units(lines) == [i \in Items |-> SumQty(lines, i)]

\* "Cash received": the loop goes round, or the sale is committed: inventory
\* update, create_receipt, save_inventory
Tender(t, cash) ==
    /\ pc[t] = "tender"
    /\ LET lines == sale_lines[t]
           total == calc_total(lines)
           msg == TenderMsg(total, cash)
           done == msg = "Receipt"
       IN /\ inventory' = [inventory EXCEPT ![t] = TenderInventory(@, lines, msg)]
          /\ db' = TenderDb(db, lines, msg)
          /\ csv' = IF done THEN inventory'[t] ELSE csv
          /\ result' = [result EXCEPT ![t] =
                IF done THEN [Msg("Receipt") EXCEPT
                                 !.receipt_no = NextReceiptNo(db),
                                 !.change = format2f(FloatMinus(float(cash), total)),
                                 !.cash = cash]
                ELSE [Msg(msg) EXCEPT !.cash = cash]]
          /\ pc' = [pc EXCEPT ![t] = IF done THEN "returned" ELSE "tender"]
          /\ unreturned' = IF done THEN Append(unreturned, Units(lines)) ELSE unreturned
          /\ rt' = IF done THEN [receipt_no |-> NextReceiptNo(db), before |-> inventory[t]]
                   ELSE rt
          /\ sale_lines' = [sale_lines EXCEPT ![t] = IF done THEN NoLines ELSE @]
          /\ issued' = IF done THEN Append(issued, NextReceiptNo(db)) ELSE issued
    /\ UNCHANGED <<txn, crashes, lock>>

\* ------------------------------------------------------------------ process_return
\* a variant of the lookup that does not look at the canceled flag
LookupMsg_IgnoreCanceled(d, receipt_no) ==
    IF ~receipt_no.num THEN "Invalid receipt number."
    ELSE IF ~ReceiptExists(d, receipt_no.val) THEN "Receipt not found."
    ELSE ""

\* what process_return prints for the receipt number typed, "" when it goes
\* on to the "Return Options" menu
LookupMsg(d, receipt_no) ==
    IF ~receipt_no.num THEN "Invalid receipt number."
    ELSE IF ~ReceiptExists(d, receipt_no.val) THEN "Receipt not found."
    ELSE IF get_receipt(d, receipt_no.val).canceled
         THEN "Receipt already fully returned/canceled."
    ELSE ""

\* pos.db after the lookup of process_return (lines 285-299): get_receipt is
\* called when the number typed is an int
LookupDb(d, receipt_no) ==
    IF receipt_no.num THEN get_receipt_db(d, receipt_no.val) ELSE d

\* the line lines[int(input) - 1] selects, as a position; 0 when it raises
LineAt(lines, line_no) ==
    IF ~line_no.num THEN 0 ELSE PyIndex(Len(lines), line_no.val - 1)

\* what choice "2" prints for the line number and quantity typed, given the
\* lines get_receipt returned
ReturnOneMsg(lines, line_no, return_qty) ==
    IF LineAt(lines, line_no) = 0 THEN "Invalid input."
    ELSE IF ~return_qty.num THEN "Invalid input."
    ELSE IF InvalidReturnQty(return_qty.val, lines[LineAt(lines, line_no)].qty)
         THEN "Invalid return quantity."
    ELSE "Partial return completed."

\* the in-memory inventory after choice "2"
ReturnOneInventory(inv, lines, line_no, return_qty) ==
    IF ReturnOneMsg(lines, line_no, return_qty) # "Partial return completed." THEN inv
    ELSE IF lines[LineAt(lines, line_no)].upc \notin DOMAIN inv THEN inv
    ELSE update_on_hand(inv, lines[LineAt(lines, line_no)].upc, return_qty.val)

\* the database after choice "2"
ReturnOneDb(d, receipt_no, lines, line_no, return_qty) ==
    IF ReturnOneMsg(lines, line_no, return_qty) # "Partial return completed." THEN d
    ELSE LET line == lines[LineAt(lines, line_no)]
             new_qty == line.qty - return_qty.val
         IN update_line_qty(d, receipt_no, line.upc, new_qty)

\* unreturned after a return against receipt_no put the units of to back,
\* where on_hand was from before
Returned(u, receipt_no, from, to) ==
    [u EXCEPT ![receipt_no] =
        [i \in Items |-> IF i \in DOMAIN to THEN @[i] - (to[i] - from[i]) ELSE @[i]]]

\* rt after a return against receipt_no committed
ReturnOn(r, receipt_no) == IF r.receipt_no = receipt_no THEN r ELSE NoRoundTrip

\* process_return stops at the receipt number
ReturnNoReceipt(t, receipt_no) ==
    /\ pc[t] = "menu"
    /\ LookupMsg(db, receipt_no) # ""
    /\ db' = LookupDb(db, receipt_no)
    /\ result' = [result EXCEPT ![t] = RetMsg(LookupMsg(db, receipt_no), receipt_no)]
    /\ pc' = [pc EXCEPT ![t] = "returned"]
    /\ UNCHANGED <<inventory, csv, sale_lines, unreturned, rt, txn, crashes, lock, issued>>

\* a choice other than "1" and "2" at the "Return Options" menu
ReturnInvalidOption(t, receipt_no) ==
    /\ pc[t] = "menu"
    /\ LookupMsg(db, receipt_no) = ""
    /\ db' = LookupDb(db, receipt_no)
    /\ result' = [result EXCEPT ![t] = RetMsg("Invalid option.", receipt_no)]
    /\ pc' = [pc EXCEPT ![t] = "returned"]
    /\ UNCHANGED <<inventory, csv, sale_lines, unreturned, rt, txn, crashes, lock, issued>>

\* choice "1", cancel entire sale
ReturnAll(t, receipt_no) ==
    /\ pc[t] = "menu"
    /\ LookupMsg(db, receipt_no) = ""
    /\ LET lines == get_receipt(db, receipt_no.val).lines
           died == MissingItem(inventory[t], lines)
       IN /\ inventory' = [inventory EXCEPT ![t] = ApplyLines(@, lines, 1)]
          /\ db' = IF died THEN LookupDb(db, receipt_no)
                   ELSE set_canceled(LookupDb(db, receipt_no), receipt_no.val)
          /\ csv' = IF died THEN csv ELSE inventory'[t]
          /\ unreturned' = Returned(unreturned, receipt_no.val, inventory[t], inventory'[t])
          /\ rt' = ReturnOn(rt, receipt_no.val)
          /\ result' = [result EXCEPT ![t] =
                RetMsg(IF died THEN "KeyError" ELSE "Full return completed.", receipt_no)]
          /\ pc' = [pc EXCEPT ![t] = IF died THEN "failed" ELSE "returned"]
    /\ UNCHANGED <<sale_lines, txn, crashes, lock, issued>>

\* choice "2", return one item
ReturnOne(t, receipt_no, line_no, return_qty) ==
    /\ pc[t] = "menu"
    /\ LookupMsg(db, receipt_no) = ""
    /\ LET lines == get_receipt(db, receipt_no.val).lines
           accepted == ReturnOneMsg(lines, line_no, return_qty) = "Partial return completed."
           died == accepted /\ lines[LineAt(lines, line_no)].upc \notin DOMAIN inventory[t]
           done == accepted /\ ~died
       IN /\ inventory' = [inventory EXCEPT ![t] =
                             ReturnOneInventory(@, lines, line_no, return_qty)]
          /\ db' = IF died THEN LookupDb(db, receipt_no)
                   ELSE ReturnOneDb(LookupDb(db, receipt_no), receipt_no.val, lines,
                                    line_no, return_qty)
          /\ csv' = IF done THEN inventory'[t] ELSE csv
          /\ unreturned' = Returned(unreturned, receipt_no.val, inventory[t], inventory'[t])
          /\ rt' = IF done THEN ReturnOn(rt, receipt_no.val) ELSE rt
          /\ result' = [result EXCEPT ![t] =
                RetOneMsg(IF died THEN "KeyError"
                          ELSE ReturnOneMsg(lines, line_no, return_qty),
                          receipt_no, line_no, return_qty)]
          /\ pc' = [pc EXCEPT ![t] = IF died THEN "failed" ELSE "returned"]
    /\ UNCHANGED <<sale_lines, txn, crashes, lock, issued>>

\* ------------------------------------------------------------------ demo
\* main with --demo: a new process, whose __init__ loads the inventory file,
\* runs demo and exits.  first = list(self.inventory.values())[0] is the item
\* of the first row of the file.
FirstItem == "A"

\* demo gets past line 379: the file has a row and the first item is in stock
DemoRuns(inv) == DOMAIN inv # {} /\ inv[FirstItem] > 0

\* what demo prints last on its way out before the sale
DemoStopMsg(inv) ==
    IF DOMAIN inv = {} THEN "IndexError"
    ELSE "Demo cannot run: first item out of stock."

\* demo up to its print of RECEIPT (lines 368-391): one unit of the first item
\* is sold: update_on_hand(-1), create_receipt, save_inventory
DemoSale(t) ==
    /\ pc[t] = "menu"
    /\ CanWrite(lock, t)
    /\ LET lines == <<SaleLine(FirstItem, 1)>>
           runs == DemoRuns(csv)
       IN /\ inventory' = [inventory EXCEPT ![t] =
                IF runs THEN update_on_hand(csv, FirstItem, -1) ELSE csv]
          /\ db' = IF runs THEN create_receipt(db, lines) ELSE db
          /\ csv' = inventory'[t]
          /\ unreturned' = IF runs THEN Append(unreturned, Units(lines)) ELSE unreturned
          /\ rt' = IF runs THEN [receipt_no |-> NextReceiptNo(db), before |-> csv] ELSE rt
          /\ issued' = IF runs THEN Append(issued, NextReceiptNo(db)) ELSE issued
          /\ txn' = [txn EXCEPT ![t] =
                IF runs THEN [NoTxn EXCEPT !.op = "demo", !.lines = lines, !.line = 1,
                                           !.return_qty = 1,
                                           !.receipt_no = NextReceiptNo(db)]
                ELSE @]
          /\ result' = [result EXCEPT ![t] =
                IF runs THEN RetMsg("RECEIPT", Num(NextReceiptNo(db)))
                ELSE Msg(DemoStopMsg(csv))]
          /\ pc' = [pc EXCEPT ![t] = IF runs THEN "demo_ret"
                                     ELSE IF DOMAIN csv = {} THEN "failed"
                                     ELSE "returned"]
    /\ UNCHANGED <<sale_lines, crashes, lock>>

\* the rest of demo (lines 393-398): the unit is put back: update_on_hand(1),
\* update_line_qty(receipt_no, upc, 0), save_inventory; the process exits
DemoReturn(t) ==
    /\ pc[t] = "demo_ret"
    /\ CanWrite(lock, t)
    /\ inventory' = [inventory EXCEPT ![t] = update_on_hand(@, FirstItem, 1)]
    /\ db' = update_line_qty(db, txn[t].receipt_no, FirstItem, 0)
    /\ csv' = inventory'[t]
    /\ unreturned' = Returned(unreturned, txn[t].receipt_no, inventory[t], inventory'[t])
    /\ rt' = ReturnOn(rt, txn[t].receipt_no)
    /\ result' = [result EXCEPT ![t] = Msg("=== DEMO COMPLETE ===")]
    /\ pc' = [pc EXCEPT ![t] = "returned"]
    /\ UNCHANGED <<sale_lines, txn, crashes, lock, issued>>

\* ------------------------------------------------------------------ inputs
UPCInputs == Items \cup {UnknownUPC}
QtyInputs == Typed(0..MaxQty)
LineNoInputs == Typed(0..MaxLines)
ReceiptNoInputs == Typed(0..MaxReceipts)
ReturnQtyInputs == Typed(0..(MaxQty + 1))
\* the amount printed at "Total due", in cents
TotalDue(t) == format2f(calc_total(sale_lines[t])).val

\* what is typed at "Cash received": one cent less than the total due, the
\* total due, five more, nan, inf, or not a number
CashInputs(t) ==
    IF pc[t] # "tender" THEN {}
    ELSE LET due == TotalDue(t)
         IN {Decimal(due - 1), Decimal(due), Decimal(due + 500),
             NaNText, InfText, NotFloat}

\* ------------------------------------------------------------------ one terminal
Next ==
    \/ MainMenu(T1)
    \/ StartSale(T1)
    \/ \E upc \in UPCInputs, qty \in QtyInputs : AddItem(T1, upc, qty)
    \/ \E line_no \in LineNoInputs : RemoveItem(T1, line_no)
    \/ CancelSale(T1)
    \/ Checkout(T1)
    \/ \E cash \in CashInputs(T1) : Tender(T1, cash)
    \/ \E n \in ReceiptNoInputs : ReturnNoReceipt(T1, n)
    \/ \E n \in ReceiptNoInputs : ReturnInvalidOption(T1, n)
    \/ \E n \in ReceiptNoInputs : ReturnAll(T1, n)
    \/ \E n \in ReceiptNoInputs, line_no \in LineNoInputs, q \in ReturnQtyInputs :
          ReturnOne(T1, n, line_no, q)
    \/ ((DemoRuns(csv) => Len(db.receipts) < MaxReceipts) /\ DemoSale(T1))
    \/ DemoReturn(T1)
    \/ Exit(T1)
    \/ Restart(T1)

Spec == Init /\ [][Next]_vars

\* ------------------------------------------------------------------ commits, step by step
\* The same handlers with one action per statement of their commit part, so
\* that a store call can raise and the process can die between two of them.
Snapshot(t) == [inventory |-> inventory[t], csv |-> csv, db |-> db]

\* the state a commit started from is recorded where a process can die; where
\* none does, txn holds the locals of the handler only
NoSnapshot == NoTxn.before

\* "Cash received" with enough cash: the loop is left (line 262)
BeginSaleFrom(t, cash, before) ==
    /\ pc[t] = "tender"
    /\ TenderMsg(calc_total(sale_lines[t]), cash) = "Receipt"
    /\ pc' = [pc EXCEPT ![t] = "sale_mem"]
    /\ txn' = [txn EXCEPT ![t] = [NoTxn EXCEPT !.op = "sale", !.lines = sale_lines[t],
                                               !.cash = cash,
                                               !.before = before]]
    /\ UNCHANGED <<inventory, csv, db, sale_lines, result, unreturned, rt, crashes, lock, issued>>

BeginSale(t, cash) == BeginSaleFrom(t, cash, Snapshot(t))

\* "Cash received" without enough cash, or not a number: the loop goes round
TenderRefused(t, cash) ==
    /\ TenderMsg(calc_total(sale_lines[t]), cash) # "Receipt"
    /\ Tender(t, cash)

\* for l in sale_lines: self.inventory[l.upc].update_on_hand(-l.qty)
SaleUpdateInventory(t) ==
    /\ pc[t] = "sale_mem"
    /\ inventory' = [inventory EXCEPT ![t] = ApplyLines(@, txn[t].lines, -1)]
    /\ pc' = [pc EXCEPT ![t] = "sale_db"]
    /\ UNCHANGED <<csv, db, sale_lines, result, unreturned, rt, txn, crashes, lock, issued>>

\* receipt_no = self.sales_store.create_receipt(sale_lines)
SaleCreateReceipt(t) ==
    /\ pc[t] = "sale_db"
    /\ CanWrite(lock, t)
    /\ db' = create_receipt(db, txn[t].lines)
    /\ txn' = [txn EXCEPT ![t].receipt_no = NextReceiptNo(db)]
    /\ unreturned' = Append(unreturned, Units(txn[t].lines))
    /\ rt' = [receipt_no |-> NextReceiptNo(db), before |-> txn[t].before.inventory]
    /\ issued' = Append(issued, NextReceiptNo(db))
    /\ pc' = [pc EXCEPT ![t] = "sale_print"]
    /\ UNCHANGED <<inventory, csv, sale_lines, result, crashes, lock>>

\* lines 269-270: the receipt number and the change are printed
SalePrintReceipt(t) ==
    /\ pc[t] = "sale_print"
    /\ result' = [result EXCEPT ![t] =
          [Msg("Receipt") EXCEPT !.receipt_no = txn[t].receipt_no,
                                 !.change = format2f(FloatMinus(float(txn[t].cash),
                                                                calc_total(txn[t].lines))),
                                 !.cash = txn[t].cash]]
    /\ pc' = [pc EXCEPT ![t] = "sale_save"]
    /\ UNCHANGED <<inventory, csv, db, sale_lines, unreturned, rt, txn, crashes, lock, issued>>

\* save_inventory, line 153: open(self.inventory_csv, "w") truncates the file
SaveTruncate(t) ==
    /\ pc[t] \in {"sale_save", "ret_save", "demo_save", "demo_ret_save"}
    /\ csv' = NoItems
    /\ pc' = [pc EXCEPT ![t] = IF pc[t] = "sale_save" THEN "sale_write"
                               ELSE IF pc[t] = "ret_save" THEN "ret_write"
                               ELSE IF pc[t] = "demo_save" THEN "demo_write"
                               ELSE "demo_ret_write"]
    /\ UNCHANGED <<inventory, db, sale_lines, result, unreturned, rt, txn, crashes, lock, issued>>

\* save_inventory, lines 154-165: the header and one row per item are written
\* and the file is closed; start_sale then returns, process_return and demo
\* go on to their prints
SaveWrite(t) ==
    /\ pc[t] \in {"sale_write", "ret_write", "demo_write", "demo_ret_write"}
    /\ csv' = inventory[t]
    /\ pc' = [pc EXCEPT ![t] = IF pc[t] = "sale_write" THEN "returned"
                               ELSE IF pc[t] = "ret_write" THEN "ret_print"
                               ELSE IF pc[t] = "demo_write" THEN "demo_print"
                               ELSE "demo_done"]
    /\ sale_lines' = [sale_lines EXCEPT ![t] = IF pc[t] = "sale_write" THEN NoLines ELSE @]
    /\ UNCHANGED <<inventory, db, result, unreturned, rt, txn, crashes, lock, issued>>

\* choice "1" of process_return on an open receipt, up to the loop of line 307
BeginReturnAllFrom(t, receipt_no, before) ==
    /\ pc[t] = "menu"
    /\ LookupMsg(db, receipt_no) = ""
    /\ pc' = [pc EXCEPT ![t] = "ret_mem"]
    /\ txn' = [txn EXCEPT ![t] =
          [NoTxn EXCEPT !.op = "all", !.receipt_no = receipt_no.val,
                        !.lines = get_receipt(db, receipt_no.val).lines,
                        !.before = before]]
    /\ db' = LookupDb(db, receipt_no)
    /\ UNCHANGED <<inventory, csv, sale_lines, result, unreturned, rt, crashes, lock, issued>>

BeginReturnAll(t, receipt_no) == BeginReturnAllFrom(t, receipt_no, Snapshot(t))

\* choice "2" of process_return, refused at the line number or the quantity
ReturnOneRefused(t, receipt_no, line_no, return_qty) ==
    /\ pc[t] = "menu"
    /\ LookupMsg(db, receipt_no) = ""
    /\ ReturnOneMsg(get_receipt(db, receipt_no.val).lines, line_no, return_qty)
          # "Partial return completed."
    /\ ReturnOne(t, receipt_no, line_no, return_qty)

\* choice "2" of process_return with a valid quantity, up to line 330
BeginReturnOneFrom(t, receipt_no, line_no, return_qty, before) ==
    /\ pc[t] = "menu"
    /\ LookupMsg(db, receipt_no) = ""
    /\ LET lines == get_receipt(db, receipt_no.val).lines
       IN /\ ReturnOneMsg(lines, line_no, return_qty) = "Partial return completed."
          /\ txn' = [txn EXCEPT ![t] =
                [NoTxn EXCEPT !.op = "one", !.receipt_no = receipt_no.val,
                              !.lines = lines, !.line = LineAt(lines, line_no),
                              !.return_qty = return_qty.val,
                              !.before = before]]
    /\ db' = LookupDb(db, receipt_no)
    /\ pc' = [pc EXCEPT ![t] = "ret_mem"]
    /\ UNCHANGED <<inventory, csv, sale_lines, result, unreturned, rt, crashes, lock, issued>>

BeginReturnOne(t, receipt_no, line_no, return_qty) ==
    BeginReturnOneFrom(t, receipt_no, line_no, return_qty, Snapshot(t))

\* the units a return in progress puts back: every line, or return_qty of one
TxnInventory(inv, x) ==
    IF x.op = "all" THEN ApplyLines(inv, x.lines, 1)
    ELSE IF x.lines[x.line].upc \notin DOMAIN inv THEN inv
    ELSE update_on_hand(inv, x.lines[x.line].upc, x.return_qty)

\* self.inventory[...] raises KeyError in the return in progress
TxnMissingItem(inv, x) ==
    IF x.op = "all" THEN MissingItem(inv, x.lines)
    ELSE x.lines[x.line].upc \notin DOMAIN inv

\* the store call of a return in progress: set_canceled or update_line_qty
TxnDb(d, x) ==
    IF x.op = "all" THEN set_canceled(d, x.receipt_no)
    ELSE update_line_qty(d, x.receipt_no, x.lines[x.line].upc,
                         x.lines[x.line].qty - x.return_qty)

\* lines 307-308 or line 330: the inventory gets stock back; a KeyError is
\* not caught and ends the process
ReturnUpdateInventory(t) ==
    /\ pc[t] = "ret_mem"
    /\ inventory' = [inventory EXCEPT ![t] = TxnInventory(@, txn[t])]
    /\ unreturned' = Returned(unreturned, txn[t].receipt_no, inventory[t], inventory'[t])
    /\ rt' = ReturnOn(rt, txn[t].receipt_no)
    /\ pc' = [pc EXCEPT ![t] = IF TxnMissingItem(inventory[t], txn[t]) THEN "failed"
                               ELSE "ret_db"]
    /\ result' = [result EXCEPT ![t] =
          IF TxnMissingItem(inventory[t], txn[t])
          THEN RetMsg("KeyError", Num(txn[t].receipt_no))
          ELSE @]
    /\ UNCHANGED <<csv, db, sale_lines, txn, crashes, lock, issued>>

\* line 309 or line 334: the receipt is written
ReturnWriteDb(t) ==
    /\ pc[t] = "ret_db"
    /\ CanWrite(lock, t)
    /\ db' = TxnDb(db, txn[t])
    /\ pc' = [pc EXCEPT ![t] = "ret_save"]
    /\ UNCHANGED <<inventory, csv, sale_lines, result, unreturned, rt, txn, crashes, lock, issued>>

\* lines 311-312 or 337-338: the print after save_inventory, return
ReturnPrint(t) ==
    /\ pc[t] = "ret_print"
    /\ result' = [result EXCEPT ![t] =
          RetMsg(IF txn[t].op = "all" THEN "Full return completed."
                 ELSE "Partial return completed.", Num(txn[t].receipt_no))]
    /\ pc' = [pc EXCEPT ![t] = "returned"]
    /\ UNCHANGED <<inventory, csv, db, sale_lines, unreturned, rt, txn, crashes, lock, issued>>

\* main with --demo, line 410, and demo, lines 368-384: the new process loads
\* the file as it stands (load_inventory, called by __init__); demo, which from
\* here on reads the loaded dict only, stops at an empty inventory
\* (IndexError) or at a first item out of stock, or goes on with the line of
\* one unit of the first item
DemoBeginFrom(t, before) ==
    /\ pc[t] = "menu"
    /\ inventory' = [inventory EXCEPT ![t] = csv]
    /\ txn' = [txn EXCEPT ![t] =
          IF DemoRuns(csv)
          THEN [NoTxn EXCEPT !.op = "demo", !.lines = <<SaleLine(FirstItem, 1)>>,
                             !.line = 1, !.return_qty = 1,
                             !.before = before]
          ELSE @]
    /\ result' = [result EXCEPT ![t] =
          IF DemoRuns(csv) THEN Msg("=== RETAILFLOW POS | DEMO MODE ===")
          ELSE Msg(DemoStopMsg(csv))]
    /\ pc' = [pc EXCEPT ![t] = IF DemoRuns(csv) THEN "demo_mem"
                               ELSE IF DOMAIN csv = {} THEN "failed"
                               ELSE "exited"]
    /\ UNCHANGED <<csv, db, sale_lines, unreturned, rt, crashes, lock, issued>>

DemoBegin(t) == DemoBeginFrom(t, [inventory |-> csv, csv |-> csv, db |-> db])

\* demo, line 386: self.inventory[first.upc].update_on_hand(-qty)
DemoSaleInventory(t) ==
    /\ pc[t] = "demo_mem"
    /\ inventory' = [inventory EXCEPT ![t] = update_on_hand(@, FirstItem, -1)]
    /\ pc' = [pc EXCEPT ![t] = "demo_db"]
    /\ UNCHANGED <<csv, db, sale_lines, result, unreturned, rt, txn, crashes, lock, issued>>

\* demo, line 387: receipt_no = self.sales_store.create_receipt([line])
DemoCreateReceipt(t) ==
    /\ pc[t] = "demo_db"
    /\ CanWrite(lock, t)
    /\ db' = create_receipt(db, txn[t].lines)
    /\ txn' = [txn EXCEPT ![t].receipt_no = NextReceiptNo(db)]
    /\ unreturned' = Append(unreturned, Units(txn[t].lines))
    /\ rt' = [receipt_no |-> NextReceiptNo(db), before |-> txn[t].before.inventory]
    /\ issued' = Append(issued, NextReceiptNo(db))
    /\ pc' = [pc EXCEPT ![t] = "demo_save"]
    /\ UNCHANGED <<inventory, csv, sale_lines, result, crashes, lock>>

\* demo, lines 390-391: SALE and RECEIPT are printed after save_inventory
DemoPrintSale(t) ==
    /\ pc[t] = "demo_print"
    /\ result' = [result EXCEPT ![t] = RetMsg("RECEIPT", Num(txn[t].receipt_no))]
    /\ pc' = [pc EXCEPT ![t] = "demo_ret_mem"]
    /\ UNCHANGED <<inventory, csv, db, sale_lines, unreturned, rt, txn, crashes, lock, issued>>

\* demo, line 393: self.inventory[first.upc].update_on_hand(1)
DemoReturnInventory(t) ==
    /\ pc[t] = "demo_ret_mem"
    /\ inventory' = [inventory EXCEPT ![t] = update_on_hand(@, FirstItem, 1)]
    /\ unreturned' = Returned(unreturned, txn[t].receipt_no, inventory[t], inventory'[t])
    /\ rt' = ReturnOn(rt, txn[t].receipt_no)
    /\ pc' = [pc EXCEPT ![t] = "demo_ret_db"]
    /\ UNCHANGED <<csv, db, sale_lines, result, txn, crashes, lock, issued>>

\* demo, line 394: self.sales_store.update_line_qty(receipt_no, first.upc, 0)
DemoUpdateLine(t) ==
    /\ pc[t] = "demo_ret_db"
    /\ CanWrite(lock, t)
    /\ db' = update_line_qty(db, txn[t].receipt_no, FirstItem, 0)
    /\ pc' = [pc EXCEPT ![t] = "demo_ret_save"]
    /\ UNCHANGED <<inventory, csv, sale_lines, result, unreturned, rt, txn, crashes, lock, issued>>

\* demo, lines 397-398: RETURN and DEMO COMPLETE are printed, the process exits
DemoComplete(t) ==
    /\ pc[t] = "demo_done"
    /\ result' = [result EXCEPT ![t] = Msg("=== DEMO COMPLETE ===")]
    /\ pc' = [pc EXCEPT ![t] = "exited"]
    /\ UNCHANGED <<inventory, csv, db, sale_lines, unreturned, rt, txn, crashes, lock, issued>>

\* the pcs at which the next statement of terminal t is the first write
\* statement of a store call
StoreCall == {"sale_db", "ret_db", "demo_db", "demo_ret_db"}

\* the pcs at which terminal t is inside the write transaction of
\* create_receipt, between its two INSERT statements
InsideCreate == {"sale_tx", "demo_tx"}

\* the write lock when the connection of terminal t is closed without commit
Released(l, t) == IF l = t THEN 0 ELSE l

\* the store call about to be made, or the rest of create_receipt, raises
\* (sqlite3.Error): its transaction is rolled back, nothing catches the
\* exception and it ends the handler and run
StorageFault(t) ==
    /\ pc[t] \in StoreCall \cup InsideCreate
    /\ crashes < MaxCrashes
    /\ crashes' = crashes + 1
    /\ lock' = Released(lock, t)
    /\ pc' = [pc EXCEPT ![t] = "failed"]
    /\ UNCHANGED <<inventory, csv, db, sale_lines, result, unreturned, rt, txn, issued>>

\* the first write statement of a store call finds the database locked by the
\* write transaction of another connection and gives up when the busy timeout
\* of sqlite3.connect (5 s by default) is over: sqlite3.OperationalError,
\* which nothing catches
StoreBusy(t) ==
    /\ pc[t] \in StoreCall
    /\ ~CanWrite(lock, t)
    /\ crashes < MaxCrashes
    /\ crashes' = crashes + 1
    /\ result' = [result EXCEPT ![t] = Msg("OperationalError")]
    /\ pc' = [pc EXCEPT ![t] = "failed"]
    /\ UNCHANGED <<inventory, csv, db, sale_lines, unreturned, rt, txn, lock, issued>>

\* the pcs at which terminal t waits for input: the main menu of run (and the
\* prompts of process_return, which read nothing but the receipt before the
\* first write) and the two loops of start_sale
AtPrompt == {"menu", "sale", "tender"}

\* the process is killed while it waits at a prompt, between two statements
\* of a commit, inside save_inventory between the truncation of the file and
\* the write, or inside create_receipt before its commit (the open
\* transaction is rolled back)
Crash(t) ==
    /\ pc[t] \in AtPrompt \cup
                 {"sale_mem", "sale_db", "sale_tx", "sale_print", "sale_save",
                  "sale_write",
                  "ret_mem", "ret_db", "ret_save", "ret_write", "ret_print",
                  "demo_mem", "demo_db", "demo_tx", "demo_save", "demo_write",
                  "demo_print", "demo_ret_mem", "demo_ret_db", "demo_ret_save",
                  "demo_ret_write", "demo_done"}
    /\ crashes < MaxCrashes
    /\ crashes' = crashes + 1
    /\ lock' = Released(lock, t)
    /\ pc' = [pc EXCEPT ![t] = "crashed"]
    /\ UNCHANGED <<inventory, csv, db, sale_lines, result, unreturned, rt, txn, issued>>

NextFault ==
    \/ MainMenu(T1)
    \/ (Len(db.receipts) < MaxCrashReceipts /\ StartSale(T1))
    \/ \E upc \in UPCInputs, qty \in QtyInputs : AddItem(T1, upc, qty)
    \/ \E line_no \in LineNoInputs : RemoveItem(T1, line_no)
    \/ CancelSale(T1)
    \/ Checkout(T1)
    \/ \E cash \in CashInputs(T1) : TenderRefused(T1, cash)
    \/ \E cash \in CashInputs(T1) : BeginSale(T1, cash)
    \/ SaleUpdateInventory(T1)
    \/ SaleCreateReceipt(T1)
    \/ SalePrintReceipt(T1)
    \/ SaveTruncate(T1)
    \/ SaveWrite(T1)
    \/ \E n \in ReceiptNoInputs : ReturnNoReceipt(T1, n)
    \/ \E n \in ReceiptNoInputs : ReturnInvalidOption(T1, n)
    \/ \E n \in ReceiptNoInputs : BeginReturnAll(T1, n)
    \/ \E n \in ReceiptNoInputs, line_no \in LineNoInputs, q \in ReturnQtyInputs :
          ReturnOneRefused(T1, n, line_no, q)
    \/ \E n \in ReceiptNoInputs, line_no \in LineNoInputs, q \in ReturnQtyInputs :
          BeginReturnOne(T1, n, line_no, q)
    \/ ReturnUpdateInventory(T1)
    \/ ReturnWriteDb(T1)
    \/ ReturnPrint(T1)
    \/ ((DemoRuns(csv) => Len(db.receipts) < MaxCrashReceipts) /\ DemoBegin(T1))
    \/ DemoSaleInventory(T1)
    \/ DemoCreateReceipt(T1)
    \/ DemoPrintSale(T1)
    \/ DemoReturnInventory(T1)
    \/ DemoUpdateLine(T1)
    \/ DemoComplete(T1)
    \/ Exit(T1)
    \/ StorageFault(T1)
    \/ Crash(T1)
    \/ Restart(T1)

SpecFault == Init /\ [][NextFault]_vars

\* ------------------------------------------------------------------ two terminals
\* Two POSApp processes on the same pos.db and inventory file, each with its
\* own in-memory inventory, interleaving at the granularity of the statements
\* of their commits, of the two halves of save_inventory and of the statements
\* of create_receipt; a process can leave at the main menu or die, and a new
\* one is started in its place.  The history rt of the last sale is kept for
\* runs of one terminal only.

\* create_receipt, line 68: INSERT INTO receipts opens the write transaction
\* and cur.lastrowid is the number of the new row
CreateReceiptInsert(t) ==
    /\ pc[t] \in {"sale_db", "demo_db"}
    /\ CanWrite(lock, t)
    /\ lock' = t
    /\ txn' = [txn EXCEPT ![t].receipt_no = NextReceiptNo(db)]
    /\ pc' = [pc EXCEPT ![t] = IF pc[t] = "sale_db" THEN "sale_tx" ELSE "demo_tx"]
    /\ UNCHANGED <<inventory, csv, db, sale_lines, result, unreturned, rt, crashes, issued>>

\* create_receipt, lines 70-75: the lines are inserted, the transaction
\* commits and the number is returned, to start_sale or to demo
CreateReceiptCommit(t) ==
    /\ pc[t] \in InsideCreate
    /\ db' = create_receipt(db, txn[t].lines)
    /\ lock' = 0
    /\ issued' = Append(issued, txn[t].receipt_no)
    /\ unreturned' = Append(unreturned, Units(txn[t].lines))
    /\ pc' = [pc EXCEPT ![t] = IF pc[t] = "sale_tx" THEN "sale_print" ELSE "demo_save"]
    /\ UNCHANGED <<inventory, csv, sale_lines, result, rt, txn, crashes>>

\* what the operators type in a run of two terminals
SharedUPCInputs == {"A", UnknownUPC}
SharedReceiptNoInputs == Typed(1..MaxSharedReceiptNo)
SharedQtyInputs == Typed(1..MaxSharedQty)
SharedLineNoInputs == Typed(1..MaxSharedLines)
SharedReturnQtyInputs == Typed(1..(MaxSharedQty + 1))
SharedCashInputs(t) ==
    IF pc[t] # "tender" THEN {}
    ELSE LET due == TotalDue(t) IN {Decimal(due - 1), Decimal(due)}

\* the terminals that are inside start_sale, or inside demo before the
\* commit of its receipt
Selling == {t \in Terminals : pc[t] \in {"sale", "tender", "sale_mem", "sale_db",
                                          "sale_tx", "sale_print", "sale_save",
                                          "sale_write",
                                          "demo_mem", "demo_db", "demo_tx"}}

NextTwo ==
    \E t \in Terminals :
        \/ MainMenu(t)
        \/ (Len(db.receipts) + Cardinality(Selling) < MaxSharedReceipts /\ StartSale(t))
        \/ \E upc \in SharedUPCInputs, qty \in SharedQtyInputs :
              Len(sale_lines[t]) < MaxSharedLines /\ AddItem(t, upc, qty)
        \/ \E line_no \in SharedLineNoInputs : RemoveItem(t, line_no)
        \/ CancelSale(t)
        \/ Checkout(t)
        \/ \E cash \in SharedCashInputs(t) : TenderRefused(t, cash)
        \/ \E cash \in SharedCashInputs(t) : BeginSaleFrom(t, cash, NoSnapshot)
        \/ SaleUpdateInventory(t)
        \/ CreateReceiptInsert(t)
        \/ CreateReceiptCommit(t)
        \/ SalePrintReceipt(t)
        \/ SaveTruncate(t)
        \/ SaveWrite(t)
        \/ \E n \in SharedReceiptNoInputs : ReturnNoReceipt(t, n)
        \/ \E n \in SharedReceiptNoInputs : ReturnInvalidOption(t, n)
        \/ \E n \in SharedReceiptNoInputs : BeginReturnAllFrom(t, n, NoSnapshot)
        \/ \E n \in SharedReceiptNoInputs, line_no \in SharedLineNoInputs,
              q \in SharedReturnQtyInputs : ReturnOneRefused(t, n, line_no, q)
        \/ \E n \in SharedReceiptNoInputs, line_no \in SharedLineNoInputs,
              q \in SharedReturnQtyInputs :
                 BeginReturnOneFrom(t, n, line_no, q, NoSnapshot)
        \/ ReturnUpdateInventory(t)
        \/ ReturnWriteDb(t)
        \/ ReturnPrint(t)
        \/ ((DemoRuns(csv) => Len(db.receipts) + Cardinality(Selling) < MaxSharedReceipts)
               /\ DemoBeginFrom(t, NoSnapshot))
        \/ DemoSaleInventory(t)
        \/ DemoPrintSale(t)
        \/ DemoReturnInventory(t)
        \/ DemoUpdateLine(t)
        \/ DemoComplete(t)
        \/ Exit(t)
        \/ (crashes < MaxSharedCrashes /\ StorageFault(t))
        \/ (crashes < MaxSharedCrashes /\ StoreBusy(t))
        \/ (crashes < MaxSharedCrashes /\ Crash(t))
        \/ Restart(t)

SpecTwo == Init /\ [][NextTwo]_vars

\* ------------------------------------------------------------------ properties
\* the stored row of receipt_no that line number line_no selects; 0 if none
StoredLineAt(receipt_no, line_no) == LineAt(RowsOf(db, receipt_no), line_no)

\* C1: for every receipt and every item, the units its returns (partial and
\* full) have added back to on_hand never exceed the units its sale removed.
C1_ReturnsWithinSale ==
    \A n \in 1..Len(unreturned) : \A i \in Items : unreturned[n][i] >= 0

\* C2: in every step, every stored line of a receipt that existed before the
\* step is a line that was stored before with at least that qty, and no line
\* is stored with qty 0.
C2_LineQtyNeverIncreases ==
    [][\A k \in 1..Len(db'.receipt_lines) :
          LET new == db'.receipt_lines[k]
          IN /\ new.qty >= 1
             /\ new.receipt_no \in 1..Len(db.receipts) =>
                   \E j \in 1..Len(db.receipt_lines) :
                      /\ db.receipt_lines[j].rowid = new.rowid
                      /\ db.receipt_lines[j].receipt_no = new.receipt_no
                      /\ new.qty <= db.receipt_lines[j].qty]_vars

\* C3: whenever the checkout of a sale has ended, by returning or by a storage
\* fault raised in create_receipt, either on_hand went down by the qty of
\* every line and the receipt exists, or no on_hand value changed and no
\* receipt was created.
C3_SaleCommitAtomic ==
    (txn[T1].op = "sale" /\ pc[T1] \in {"returned", "failed"}) =>
        \/ /\ inventory[T1] = ApplyLines(txn[T1].before.inventory, txn[T1].lines, -1)
           /\ Len(db.receipts) = Len(txn[T1].before.db.receipts) + 1
        \/ /\ inventory[T1] = txn[T1].before.inventory
           /\ db = txn[T1].before.db

\* the units the return in progress is to put back, per item
TxnUnits(x) ==
    IF x.op = "all" THEN Units(x.lines)
    ELSE [i \in Items |-> IF i = x.lines[x.line].upc THEN x.return_qty ELSE 0]

\* C4: whenever the process has died between two steps of a sale or a return,
\* the inventory file and the database it leaves behind are not a file with
\* the sale's units taken out and no receipt, and not a receipt with a line
\* reduced or the canceled flag set and the units not put back in the file.
C4_CrashConsistent ==
    pc[T1] = "crashed" =>
        /\ (txn[T1].op = "sale" /\ csv # txn[T1].before.csv) =>
               Len(db.receipts) = Len(txn[T1].before.db.receipts) + 1
        /\ (txn[T1].op \in {"all", "one"} /\ db # txn[T1].before.db) =>
               /\ DOMAIN csv = Items
               /\ \A i \in Items : csv[i] = txn[T1].before.csv[i] + TxnUnits(txn[T1])[i]

\* C5: whenever "cancel entire sale" has ended, by returning or by a storage
\* fault raised in set_canceled, either on_hand went up by the qty of every
\* line and the receipt is canceled, or no on_hand value changed and the
\* receipt is still open.
C5_FullReturnAtomic ==
    (txn[T1].op = "all" /\ pc[T1] \in {"returned", "failed"}) =>
        \/ /\ inventory[T1] = ApplyLines(txn[T1].before.inventory, txn[T1].lines, 1)
           /\ db.receipts[txn[T1].receipt_no]
        \/ /\ inventory[T1] = txn[T1].before.inventory
           /\ ~db.receipts[txn[T1].receipt_no]

\* C6: a return request against a receipt that is already canceled is answered
\* "already canceled" and changes no on_hand value, no file and no receipt, so
\* the inventory is restored for a receipt once only; and a full return that
\* is carried out is one against a receipt that was open.
C6_FullReturnOnce ==
    [][/\ \A n \in 1..Len(db.receipts) :
             (db.receipts[n] /\ pc[T1] = "menu" /\ result'[T1].receipt_no = n) =>
                 /\ result'[T1].msg = "Receipt already fully returned/canceled."
                 /\ inventory' = inventory /\ csv' = csv /\ db' = db
       /\ (pc[T1] = "menu" /\ result'[T1].msg = "Full return completed.") =>
             /\ ~db.receipts[result'[T1].receipt_no]
             /\ db'.receipts[result'[T1].receipt_no]]_vars

\* a second return request against a canceled receipt has been refused
C6_Witness ==
    /\ result[T1].msg = "Receipt already fully returned/canceled."
    /\ db.receipts[result[T1].receipt_no]
    /\ \E i \in Items : inventory[T1][i] # InitStock

\* C7: a partial return of q units from a stored line of qty n is carried out
\* exactly when 1 <= q <= n; q = n removes the line; any other q is answered
\* "Invalid return quantity." and changes neither on_hand nor the receipts.
C7_PartialReturnBounds ==
    [][(/\ pc[T1] = "menu"
        /\ result'[T1].return_qty.num
        /\ StoredLineAt(result'[T1].receipt_no, result'[T1].line_no) # 0) =>
          LET rn == result'[T1].receipt_no
              q == result'[T1].return_qty.val
              row == RowsOf(db, rn)[StoredLineAt(rn, result'[T1].line_no)]
              ok == 1 <= q /\ q <= row.qty
          IN /\ ok <=> result'[T1].msg = "Partial return completed."
             /\ ok => inventory'[T1][row.upc] = inventory[T1][row.upc] + q
             /\ (ok /\ q = row.qty) =>
                   \A k \in 1..Len(db'.receipt_lines) :
                      db'.receipt_lines[k].rowid # row.rowid
             /\ ~ok => /\ result'[T1].msg = "Invalid return quantity."
                       /\ inventory' = inventory /\ db' = db /\ csv' = csv]_vars

\* a partial return of the whole qty of a receipt's only line has removed it
C7_Witness ==
    /\ result[T1].msg = "Partial return completed."
    /\ RowsOf(db, result[T1].receipt_no) = << >>
    /\ ~db.receipts[result[T1].receipt_no]

\* C8: a partial return that is carried out adds q to on_hand of the line's
\* item and to nothing else, takes q from that one line (removing it at zero),
\* and leaves the canceled flags and every other stored line as they were.
C8_PartialReturnFrame ==
    [][(pc[T1] = "menu" /\ result'[T1].msg = "Partial return completed.") =>
          LET rn == result'[T1].receipt_no
              q == result'[T1].return_qty.val
              row == RowsOf(db, rn)[StoredLineAt(rn, result'[T1].line_no)]
              kept == SelectSeq(db.receipt_lines, LAMBDA r : r.rowid # row.rowid)
              kept2 == SelectSeq(db'.receipt_lines, LAMBDA r : r.rowid # row.rowid)
              left == SelectSeq(db'.receipt_lines, LAMBDA r : r.rowid = row.rowid)
          IN /\ inventory'[T1] = [inventory[T1] EXCEPT ![row.upc] = @ + q]
             /\ db'.receipts = db.receipts
             /\ kept2 = kept
             /\ left = IF q = row.qty THEN << >>
                       ELSE <<[row EXCEPT !.qty = row.qty - q]>>]_vars

\* C9: once the receipt of the last committed sale is canceled, with only
\* returns against that receipt since the sale, on_hand of every item is what
\* it was just before the sale.
C9_RoundTrip ==
    (rt.receipt_no # 0 /\ db.receipts[rt.receipt_no]) => inventory[T1] = rt.before

RefusalMsgs ==
    {"UPC not found.", "Receipt not found.", "Receipt already fully returned/canceled.",
     "Invalid input.", "Invalid return quantity.", "Not enough cash."}

\* C10: a step that answers a sale or return request with a business-rule
\* refusal leaves on_hand of every item, the inventory file and every receipt
\* (flag and lines) as they were.
C10_RefusalChangesNothing ==
    [][result'[T1].msg \in RefusalMsgs =>
          inventory' = inventory /\ csv' = csv /\ db' = db]_vars

\* a return of more units than a line holds has been refused after two sales
C10_Witness ==
    /\ result[T1].msg = "Invalid return quantity."
    /\ Len(db.receipts) = MaxReceipts

\* C11: in every state reached by committed sales and returns from an
\* inventory with on_hand >= 0 for every item, on_hand of every item is >= 0:
\* a sale of more units than are on hand does not drive on_hand negative.
C11_OnHandNonNegative ==
    \A i \in Items : inventory[T1][i] >= 0 /\ csv[i] >= 0

\* C12: every receipt number create_receipt returns is strictly greater than
\* every number it returned before (so none is returned twice), for any
\* sequence of sales and returns of two terminals on the same database, their
\* create_receipt transactions interleaving.
C12_ReceiptNoIncreasing ==
    \A j, k \in 1..Len(issued) : j < k => issued[j] < issued[k]

\* both terminals have committed a sale and printed different receipt numbers
C12_Witness ==
    /\ Len(issued) >= 2
    /\ result[1].msg = "Receipt" /\ result[2].msg = "Receipt"
    /\ result[1].receipt_no # result[2].receipt_no

\* C13: canceled is a terminal state of a receipt: in every step, a receipt
\* whose canceled flag is true keeps the flag and its stored lines, whatever
\* the operation (sale, partial return, full return), and a return request
\* against it changes no on_hand value.
C13_CanceledIsTerminal ==
    [][\A n \in 1..Len(db.receipts) :
          db.receipts[n] =>
              /\ n \in 1..Len(db'.receipts) /\ db'.receipts[n]
              /\ RowsOf(db', n) = RowsOf(db, n)
              /\ (pc[T1] = "menu" /\ result'[T1].receipt_no = n) =>
                    inventory' = inventory /\ csv' = csv]_vars

\* a partial return on receipt 2 has been carried out while receipt 1 is
\* canceled and still holds a line of the same item
C13_Witness ==
    /\ Len(db.receipts) >= 2 /\ db.receipts[1]
    /\ result[T1].msg = "Partial return completed." /\ result[T1].receipt_no = 2
    /\ \E k \in 1..Len(db.receipt_lines) :
          /\ db.receipt_lines[k].receipt_no = 1
          /\ \E j \in 1..Len(db.receipt_lines) :
                /\ db.receipt_lines[j].receipt_no = 2
                /\ db.receipt_lines[j].upc = db.receipt_lines[k].upc

\* C14: a receipt record is never deleted: every number create_receipt has
\* returned is the number of a stored receipt in every later state, also after
\* the receipt was canceled and after partial returns removed all its lines,
\* and a return request for such a number is never answered "Receipt not
\* found.".
C14_ReceiptNeverDeleted ==
    [][/\ \A k \in 1..Len(issued') : ReceiptExists(db', issued'[k])
       /\ (pc[T1] = "menu" /\ result'[T1].msg = "Receipt not found.") =>
             \A k \in 1..Len(issued) : issued[k] # result'[T1].receipt_no]_vars

\* a receipt that partial returns left without lines and a full return then
\* canceled has been looked up again
C14_Witness ==
    /\ result[T1].msg = "Receipt already fully returned/canceled."
    /\ \E k \in 1..Len(issued) : issued[k] = result[T1].receipt_no
    /\ RowsOf(db, result[T1].receipt_no) = << >>

\* the total of a sale: the sum over its lines of unit_price x qty
SaleTotal(lines) ==
    LET price(i) == PriceCents[i] * SumQty(lines, i)
    IN price("A") + price("B")

\* C15: a round of the cash loop commits the sale exactly when the cash typed
\* is >= the total, the sum over the lines of unit_price x qty; the change
\* printed is then cash - total, which is >= 0, and one receipt is created;
\* with cash < total the round is refused, no receipt is created and no
\* on_hand value changes (the amounts are the decimals typed and printed,
\* in cents).
C15_TenderAndChange ==
    [][pc[T1] = "tender" =>
          LET total == SaleTotal(sale_lines[T1])
              cash == result'[T1].cash
              change == result'[T1].change
              committed == result'[T1].msg = "Receipt"
              enough == cash.num /\ (cash.fl = "inf" \/ (cash.fl = "finite" /\ cash.val >= total))
          IN /\ committed <=> enough
             /\ committed => /\ change = IF cash.fl = "finite"
                                         THEN Decimal(cash.val - total) ELSE cash
                             /\ change.fl = "inf" \/ (change.fl = "finite" /\ change.val >= 0)
                             /\ Len(db'.receipts) = Len(db.receipts) + 1
             /\ (cash.num /\ cash.fl = "finite" /\ cash.val < total) =>
                   /\ result'[T1].msg = "Not enough cash."
                   /\ db' = db /\ inventory' = inventory /\ csv' = csv]_vars

\* C16: a step that commits a sale takes from on_hand of every item the sum of
\* qty over the created receipt's lines of that item, every line counted
\* once, and the created receipt holds the lines of the sale, in order, with
\* canceled = false.
C16_SaleDecrementMatchesReceipt ==
    [][(pc[T1] = "tender" /\ result'[T1].msg = "Receipt") =>
          LET n == result'[T1].receipt_no
          IN /\ ReceiptExists(db', n) /\ ~ReceiptExists(db, n)
             /\ get_receipt(db', n).canceled = FALSE
             /\ get_receipt(db', n).lines = sale_lines[T1]
             /\ \A i \in Items :
                   inventory[T1][i] - inventory'[T1][i] =
                       SumQty(get_receipt(db', n).lines, i)]_vars

\* a sale with two lines of the same item has been committed
C16_Witness ==
    /\ result[T1].msg = "Receipt"
    /\ LET lines == get_receipt(db, result[T1].receipt_no).lines
       IN /\ Len(lines) = 2
          /\ lines[1].upc = lines[2].upc
          /\ lines[1].qty # lines[2].qty

\* what process_return prints when it has called get_receipt and ends
\* without another store call
LookupOnlyMsgs ==
    {"Receipt not found.", "Receipt already fully returned/canceled.", "Invalid option.",
     "Invalid input.", "Invalid return quantity."}

\* C17: get_receipt has no side effects: a process_return request in which
\* get_receipt is the only store call leaves on_hand of every item, in memory
\* and in the inventory file, as it was, creates and removes no receipt and
\* leaves every stored line as it was, so that get_receipt(n) called again
\* with no write in between returns the same (canceled, lines) for every
\* receipt, and a number that was not found is still not found.
C17_GetReceiptNoSideEffects ==
    [][(pc[T1] = "menu" /\ result'[T1].msg \in LookupOnlyMsgs) =>
          /\ inventory'[T1] = inventory[T1]
          /\ csv' = csv
          /\ Len(db'.receipts) = Len(db.receipts)
          /\ db'.receipt_lines = db.receipt_lines
          /\ \A n \in 1..Len(db.receipts) : get_receipt(db', n) = get_receipt(db, n)]_vars

\* the lookup of an open receipt of two lines, next to a canceled receipt,
\* has ended at the "Return Options" menu
C17_Witness ==
    /\ result[T1].msg = "Invalid option."
    /\ result[T1].receipt_no = 2
    /\ Len(db.receipts) = 2
    /\ db.receipts[1] /\ ~db.receipts[2]
    /\ Len(RowsOf(db, 2)) = 2

\* C18: the canceled flag of a receipt becomes true in a full-return step
\* only: a partial return never sets it, also when it removes the last line
\* of the receipt; a receipt left open without lines is not refused at the
\* lookup, and a full return on it sets canceled and changes no on_hand value.
C18_CanceledOnlyByFullReturn ==
    [][\A n \in 1..Len(db'.receipts) :
          /\ (db'.receipts[n] /\ (n > Len(db.receipts) \/ ~db.receipts[n])) =>
                /\ result'[T1].msg = "Full return completed."
                /\ result'[T1].receipt_no = n
          /\ (/\ n <= Len(db.receipts) /\ ~db.receipts[n]
              /\ RowsOf(db, n) = << >> /\ pc[T1] = "menu") =>
                /\ LookupMsg(db, Num(n)) = ""
                /\ (result'[T1].msg = "Full return completed."
                      /\ result'[T1].receipt_no = n) =>
                      /\ db'.receipts[n]
                      /\ inventory' = inventory]_vars

\* a full return has been carried out on a receipt that partial returns had
\* left open without lines
C18_Witness ==
    /\ result[T1].msg = "Full return completed."
    /\ db.receipts[result[T1].receipt_no]
    /\ RowsOf(db, result[T1].receipt_no) = << >>

\* C20: every stored line of every receipt has qty >= 1 and every receipt has
\* at least one line when it is created: a checkout without lines creates no
\* receipt, a line enters a sale with qty > 0 only, and a partial return that
\* leaves qty 0 deletes the line.
C20_StoredQtyPositive ==
    [][/\ \A k \in 1..Len(db'.receipt_lines) : db'.receipt_lines[k].qty >= 1
       /\ \A k \in 1..Len(sale_lines'[T1]) : sale_lines'[T1][k].qty >= 1
       /\ \A n \in 1..Len(db'.receipts) :
             n > Len(db.receipts) => RowsOf(db', n) # << >>
       /\ result'[T1].msg = "Empty sale." => db' = db
       /\ (pc[T1] = "menu" /\ result'[T1].msg = "Partial return completed."
             /\ result'[T1].return_qty.val =
                  RowsOf(db, result'[T1].receipt_no)
                      [StoredLineAt(result'[T1].receipt_no, result'[T1].line_no)].qty) =>
             Len(RowsOf(db', result'[T1].receipt_no)) <
                 Len(RowsOf(db, result'[T1].receipt_no))]_vars

\* a partial return of the whole qty of one line of a two-line receipt has
\* deleted that line and left the other
C20_Witness ==
    /\ result[T1].msg = "Partial return completed."
    /\ result[T1].return_qty = Num(MaxQty)
    /\ result[T1].line_no = Num(1)
    /\ Len(RowsOf(db, result[T1].receipt_no)) = 1
    /\ result[T1].receipt_no = 1
    /\ RowsOf(db, 1)[1].rowid = 2

\* C19: two return operations of two terminals on the same open receipt,
\* interleaved at their store calls so that both read the receipt before
\* either writes, behave as if one ran after the other: the units they add
\* back to on_hand for a receipt's item never exceed the units sold, and two
\* full returns of the same receipt do not both complete.
C19_ReturnsSerialized ==
    /\ \A n \in 1..Len(unreturned) : \A i \in Items : unreturned[n][i] >= 0
    /\ \A t, u \in Terminals :
          (/\ t # u
           /\ result[t].msg = "Full return completed."
           /\ result[u].msg = "Full return completed.") =>
              result[t].receipt_no # result[u].receipt_no

====
